---- MODULE Spec2Model ----
(***************************************************************************)
(* Model of src/annotate/post_process.py (MINTIE): main() reads the contig *)
(* table, the DE results and the optional gene list, filters the contigs   *)
(* by variant type and by gene, joins the DE results, annotates every row  *)
(* with its supertranscript alignments and writes the table to stdout.     *)
(*                                                                         *)
(* Text that the code takes apart or puts together character by character  *)
(* (overlapping_genes, gene symbols, reference names, ST_alignment) is a   *)
(* sequence of one-character strings; identifiers that are only compared   *)
(* (contig ids, variant types, column names) are TLA+ strings.             *)
(***************************************************************************)
EXTENDS Integers, Sequences, FiniteSets, TLC

VARIABLES
    input,        \* the command line and the files on disk (never written)
    pc,           \* the statement of main() / get_st_alignments() to run next
    contigs,      \* the contigs dataframe: [cols, rows]
    de_results,   \* the DE dataframe: [cols, rows]
    gene_filter,  \* column 0 of the gene-filter dataframe (<<>>: empty frame)
    bam,          \* the pysam handle: [opens, fetches, has_index, pos]
    scan,         \* locals of get_st_alignments: [i, aligned_conts, st_alignment]
    stdout,       \* the rows written by to_csv
    exit          \* how the process ended: [via, status, error, at]

vars == <<input, pc, contigs, de_results, gene_filter, bam, scan, stdout, exit>>

----------------------------------------------------------------------------
(* Bounds of the model *)

MaxContigs == 2     \* rows of the contig-info table
MaxDE == 2          \* rows of the DE-results table
MaxLen == 3         \* characters of an overlapping_genes field
MaxRecords == 3     \* records of the alignment file

(* Program constants *)

EXIT_FILE_IO_ERROR == 1
\* status of the interpreter when main() ends normally / by an uncaught exception
EXIT_SUCCESS == 0
UNCAUGHT_EXCEPTION_STATUS == 1

----------------------------------------------------------------------------
(* Text helpers *)

Range(s) == {s[i] : i \in DOMAIN s}

\* pandas' missing value: what read_csv makes of an empty field, and the value
\* of a column a row does not have.
NaN == <<"NaN">>

\* All sequences over S of length 0..n
SeqsUpTo(S, n) == UNION {[1..k -> S] : k \in 0..n}

\* str.split(sep): the pieces between the separators, k+1 pieces for k separators
RECURSIVE split(_, _)
split(s, sep) ==
    IF \A i \in DOMAIN s : s[i] # sep
    THEN <<s>>
    ELSE LET i == CHOOSE k \in DOMAIN s : s[k] = sep /\ \A j \in 1..(k-1) : s[j] # sep
         IN <<SubSeq(s, 1, i-1)>> \o split(SubSeq(s, i+1, Len(s)), sep)

\* [g for gene in genes for g in gene]
RECURSIVE flatten(_)
flatten(ss) == IF ss = <<>> THEN <<>> ELSE Head(ss) \o flatten(Tail(ss))

\* sep.join(parts)
RECURSIVE join(_, _)
join(sep, parts) ==
    IF parts = <<>> THEN <<>>
    ELSE IF Len(parts) = 1 THEN parts[1]
    ELSE parts[1] \o <<sep>> \o join(sep, Tail(parts))

----------------------------------------------------------------------------
(* get_all_genes, is_in_genelist, filter_by_gene *)

get_all_genes_colon_only(overlapping_genes) == split(overlapping_genes, ":")

get_all_genes(overlapping_genes) ==
    LET genes == split(overlapping_genes, ":")
        slots == [i \in DOMAIN genes |-> split(genes[i], "|")]
    IN flatten(slots)

is_in_genelist(overlapping_genes, genelist) ==
    \E i \in DOMAIN overlapping_genes : overlapping_genes[i] \in Range(genelist)

\* og.split raises AttributeError on a missing (NaN) overlapping_genes value
filter_by_gene_raises(frame) ==
    \/ "overlapping_genes" \notin frame.cols
    \/ \E i \in DOMAIN frame.rows : frame.rows[i].overlapping_genes = NaN

filter_by_gene(frame, genelist) ==
    [frame EXCEPT !.rows =
        SelectSeq(frame.rows,
                  LAMBDA r : is_in_genelist(get_all_genes(r.overlapping_genes), genelist))]

----------------------------------------------------------------------------
(* The inputs: command line (parse_args) and the files it names *)

Ids == {"A", "B"}
VarTypes == {"INS", "DEL"}

\* characters of an overlapping_genes field: two letters that differ only in
\* case, and the two separators
Alphabet == {"a", "A", ":", "|"}

G1G2G3 == <<"g", "1", "|", "g", "2", ":", "g", "3">>
G3 == <<"g", "3">>
G9 == <<"g", "9">>
ChrX == <<"c", "h", "r", "X">>
ChrY == <<"c", "h", "r", "Y">>

ContigCols == {"contig_id", "variant_type", "overlapping_genes", "genes", "info"}
DECols == {"contig", "stats"}

\* a line of the contig-info file; `info` stands for the additional annotation
\* columns and tells the lines of the file apart
ContigLine(id, vt, og) == [contig_id |-> id, variant_type |-> vt, overlapping_genes |-> og]

Record(q, r) == [query_name |-> q, reference_name |-> r]

parse_args(sample, var_list, gene_path) ==
    [sample |-> sample, var_filter |-> var_list, gene_filter |-> gene_path]

Input(args, ccols, clines, dcols, dlines, genes, records) ==
    [args |-> args,
     contig_info |-> [cols |-> ccols, lines |-> clines],
     de_results |-> [cols |-> dcols, lines |-> dlines],
     gene_file |-> genes,
     st_bam |-> records]

DefaultRecords == <<Record("A", ChrX), Record("B", ChrX), Record("A", ChrY)>>
NoFilters == parse_args("S1", {}, "")

\* contig tables of up to MaxContigs lines against every combination of filters
FilterInputs ==
    { Input(parse_args("S1", vf, gf[1]), ContigCols, cl, DECols, <<"A", "A">>, gf[2],
            DefaultRecords) :
        vf \in {{}, {"DEL"}},
        gf \in {<<"", <<>>>>, <<"genes.txt", <<G3>>>>, <<"genes.txt", <<G9>>>>},
        cl \in SeqsUpTo({ContigLine(id, vt, og) :
                            id \in Ids, vt \in VarTypes, og \in {G1G2G3, G9}}, MaxContigs) }

\* contig ids against DE tables of up to MaxDE lines
JoinInputs ==
    { Input(NoFilters, ContigCols,
            [i \in DOMAIN ids |-> ContigLine(ids[i], "INS", G1G2G3)],
            DECols, dl, <<>>, DefaultRecords) :
        ids \in SeqsUpTo(Ids, MaxContigs), dl \in SeqsUpTo(Ids, MaxDE) }

\* every overlapping_genes text of up to MaxLen characters against gene lists
GeneInputs ==
    { Input(parse_args("S1", {}, "genes.txt"), ContigCols,
            <<ContigLine("A", "INS", og)>>, DECols, <<"A">>, gl, DefaultRecords) :
        og \in SeqsUpTo(Alphabet, MaxLen),
        gl \in {<<<<"a">>>>, <<<<"A">>, <<"a", "A">>>>} }

\* every alignment file of up to MaxRecords records
BamInputs ==
    { Input(NoFilters, ContigCols,
            <<ContigLine("A", "INS", G3), ContigLine("B", "INS", G3),
              ContigLine("A", "DEL", G3)>>,
            DECols, <<"A", "B">>, <<>>, rs) :
        rs \in SeqsUpTo({Record(q, r) : q \in Ids \cup {"C"}, r \in {ChrX, ChrY}},
                        MaxRecords) }

\* tables with and without the columns the code names, and an empty gene file
ColumnInputs ==
    { Input(parse_args("S1", f[1], f[2]), cc, <<ContigLine("A", "DEL", G1G2G3)>>,
            dc, <<"A">>, f[3], DefaultRecords) :
        f \in {<<{}, "", <<>>>>, <<{"DEL"}, "genes.txt", <<G3>>>>, <<{}, "genes.txt", <<>>>>},
        cc \in {ContigCols, ContigCols \ {"genes"}, ContigCols \ {"variant_type"},
                ContigCols \ {"overlapping_genes"}},
        dc \in {DECols, DECols \cup {"genes"}, DECols \ {"contig"}} }

Inputs == FilterInputs \cup JoinInputs \cup GeneInputs \cup BamInputs \cup ColumnInputs

----------------------------------------------------------------------------
(* Dataframes *)

EmptyFrame == [cols |-> {}, rows |-> <<>>]

\* pd.read_csv(contig_info, sep='\t'): an empty field is read as NaN, a column
\* the file does not have has no value
read_contig_info(file) ==
    [cols |-> file.cols,
     rows |-> [i \in DOMAIN file.lines |->
        [contig_id |-> file.lines[i].contig_id,
         variant_type |-> IF "variant_type" \in file.cols
                          THEN file.lines[i].variant_type ELSE "",
         overlapping_genes |->
            IF "overlapping_genes" \in file.cols /\ file.lines[i].overlapping_genes # <<>>
            THEN file.lines[i].overlapping_genes ELSE NaN,
         info |-> i,
         sample |-> "",
         stats |-> 0,
         ST_alignment |-> NaN]]]

\* pd.read_csv(de_results, sep='\t'); `stats` stands for the statistics columns
\* and tells the lines of the file apart
read_de_results(file) ==
    [cols |-> file.cols,
     rows |-> [j \in DOMAIN file.lines |-> [contig |-> file.lines[j], stats |-> j]]]

----------------------------------------------------------------------------
(* add_de_info: rename, merge, drop *)

\* de_results.rename(columns={'contig': 'contig_id'})
rename(cols) == IF "contig" \in cols THEN (cols \ {"contig"}) \cup {"contig_id"} ELSE cols

\* columns of pd.merge(left, right, on='contig_id'): a name both sides have
\* (other than the key) is kept twice, as name_x and name_y
merge_cols(lcols, rcols) ==
    LET common == (lcols \cap rcols) \ {"contig_id"}
    IN (lcols \ common) \cup (rcols \ common)
         \cup {c \o "_x" : c \in common} \cup {c \o "_y" : c \in common}

matches_first_only(l, right, j) ==
    LET js == {k \in DOMAIN right : right[k].contig = l.contig_id}
    IN IF js = {} THEN <<>>
       ELSE <<[l EXCEPT !.stats = right[CHOOSE k \in js : \A m \in js : k <= m].stats]>>

\* the DE rows that match contig row l, in the order of the DE table
RECURSIVE matches(_, _, _)
matches(l, right, j) ==
    IF j > Len(right) THEN <<>>
    ELSE (IF right[j].contig = l.contig_id
          THEN <<[l EXCEPT !.stats = right[j].stats]>> ELSE <<>>)
         \o matches(l, right, j + 1)

\* inner join that keeps the order of the left rows
RECURSIVE merge_rows(_, _)
merge_rows(left, right) ==
    IF left = <<>> THEN <<>>
    ELSE matches(Head(left), right, 1) \o merge_rows(Tail(left), right)

\* inner join that groups the result by key, keys in the order they first
\* appear on the left (the hash join of older pandas)
RECURSIVE merge_rows_grouped(_, _)
merge_rows_grouped(left, right) ==
    IF left = <<>> THEN <<>>
    ELSE LET k == Head(left).contig_id
             same == SelectSeq(left, LAMBDA r : r.contig_id = k)
             rest == SelectSeq(left, LAMBDA r : r.contig_id # k)
         IN merge_rows(same, right) \o merge_rows_grouped(rest, right)

\* the row orders pd.merge may give, by pandas version
merge_orders(left, right) == {merge_rows(left, right), merge_rows_grouped(left, right)}

\* pd.merge raises KeyError when a side has no contig_id column; drop raises
\* KeyError when the merged table has no column named genes
add_de_info_raises(frame, de) ==
    \/ "contig_id" \notin frame.cols
    \/ "contig_id" \notin rename(de.cols)
    \/ "genes" \notin merge_cols(frame.cols, rename(de.cols))

add_de_info_cols_keep_genes(frame, de) == merge_cols(frame.cols, rename(de.cols))

add_de_info_cols(frame, de) == merge_cols(frame.cols, rename(de.cols)) \ {"genes"}

----------------------------------------------------------------------------
(* Control flow of main() and the ways the process ends *)

main_next_output_before_alignments(stmt) ==
    CASE stmt = "read_contig_info" -> "read_de_results"
      [] stmt = "read_de_results" -> "read_gene_filter"
      [] stmt = "read_gene_filter" -> "var_filter"
      [] stmt = "var_filter" -> "sample"
      [] stmt = "sample" -> "gene_filter"
      [] stmt = "gene_filter" -> "add_de_info"
      [] stmt = "add_de_info" -> "to_csv"
      [] stmt = "to_csv" -> "get_st_alignments"
      [] stmt = "get_st_alignments" -> "return"

\* the statement of main() that follows stmt
main_next(stmt) ==
    CASE stmt = "read_contig_info" -> "read_de_results"
      [] stmt = "read_de_results" -> "read_gene_filter"
      [] stmt = "read_gene_filter" -> "var_filter"
      [] stmt = "var_filter" -> "sample"
      [] stmt = "sample" -> "gene_filter"
      [] stmt = "gene_filter" -> "add_de_info"
      [] stmt = "add_de_info" -> "get_st_alignments"
      [] stmt = "get_st_alignments" -> "to_csv"
      [] stmt = "to_csv" -> "return"

Running == [via |-> "running", status |-> EXIT_SUCCESS, error |-> "", at |-> ""]

\* utils.exit_with_error(message, exit_status): report and sys.exit(exit_status)
exit_with_error(message, exit_status) ==
    /\ pc' = "exited"
    /\ exit' = [via |-> "exit_with_error", status |-> exit_status,
                error |-> "IOError", at |-> message]

\* an exception nothing catches: traceback, interpreter status 1
Uncaught(error, at) ==
    /\ pc' = "exited"
    /\ exit' = [via |-> "uncaught", status |-> UNCAUGHT_EXCEPTION_STATUS,
                error |-> error, at |-> at]

\* what read_csv may raise: IOError (unreadable file) or a parse error
ReadErrors == {"IOError", "ParserError"}

in_try_required_only(stmt) == stmt \in {"read_contig_info", "read_de_results"}

\* the statements inside the try block of main()
in_try(stmt) == stmt \in {"read_contig_info", "read_de_results", "read_gene_filter"}

\* except IOError as exception: exit_with_error(str(exception), EXIT_FILE_IO_ERROR)
Raise(error, stmt) ==
    IF in_try(stmt) /\ error = "IOError"
    THEN exit_with_error(stmt, EXIT_FILE_IO_ERROR)
    ELSE Uncaught(error, stmt)

----------------------------------------------------------------------------
(* main(): loading *)

Init ==
    /\ input \in Inputs
    /\ pc = "read_contig_info"
    /\ contigs = EmptyFrame
    /\ de_results = EmptyFrame
    /\ gene_filter = <<>>
    /\ bam = [opens |-> 0, fetches |-> 0, has_index |-> FALSE, pos |-> 0]
    /\ scan = [i |-> 0, aligned_conts |-> <<>>, st_alignment |-> <<>>]
    /\ stdout = <<>>
    /\ exit = Running

\* contigs = pd.read_csv(args.contig_info, sep='\t')
ReadContigInfo ==
    /\ pc = "read_contig_info"
    /\ contigs' = read_contig_info(input.contig_info)
    /\ pc' = main_next(pc)
    /\ UNCHANGED <<input, de_results, gene_filter, bam, scan, stdout, exit>>

ReadContigInfoFails ==
    /\ pc = "read_contig_info"
    /\ \E error \in ReadErrors : Raise(error, pc)
    /\ UNCHANGED <<input, contigs, de_results, gene_filter, bam, scan, stdout>>

\* de_results = pd.read_csv(args.de_results, sep='\t')
ReadDEResults ==
    /\ pc = "read_de_results"
    /\ de_results' = read_de_results(input.de_results)
    /\ pc' = main_next(pc)
    /\ UNCHANGED <<input, contigs, gene_filter, bam, scan, stdout, exit>>

ReadDEResultsFails ==
    /\ pc = "read_de_results"
    /\ \E error \in ReadErrors : Raise(error, pc)
    /\ UNCHANGED <<input, contigs, de_results, gene_filter, bam, scan, stdout>>

\* gene_filter = pd.read_csv(args.gene_filter, header=None)
\*               if args.gene_filter != '' else pd.DataFrame()
ReadGeneFilter ==
    /\ pc = "read_gene_filter"
    /\ input.args.gene_filter # "" => input.gene_file # <<>>
    /\ gene_filter' = IF input.args.gene_filter # "" THEN input.gene_file ELSE <<>>
    /\ pc' = main_next(pc)
    /\ UNCHANGED <<input, contigs, de_results, bam, scan, stdout, exit>>

\* the read fails, or the file has no line (pandas raises EmptyDataError)
ReadGeneFilterFails ==
    /\ pc = "read_gene_filter"
    /\ input.args.gene_filter # ""
    /\ \/ \E error \in ReadErrors : Raise(error, pc)
       \/ input.gene_file = <<>> /\ Raise("EmptyDataError", pc)
    /\ UNCHANGED <<input, contigs, de_results, gene_filter, bam, scan, stdout>>

----------------------------------------------------------------------------
(* main(): filters *)

var_filter_always(var_list) == TRUE

\* if args.var_filter:
var_filter_given(var_list) == var_list # {}

keeps_variant_complement(r, var_list) == r.variant_type \notin var_list

\* lambda v: v in args.var_filter
keeps_variant(r, var_list) == r.variant_type \in var_list

\* contigs = contigs[contigs.variant_type.apply(lambda v: v in args.var_filter).values]
VarFilter ==
    /\ pc = "var_filter"
    /\ var_filter_given(input.args.var_filter) => "variant_type" \in contigs.cols
    /\ contigs' =
         IF var_filter_given(input.args.var_filter)
         THEN [contigs EXCEPT !.rows =
                  SelectSeq(contigs.rows, LAMBDA r : keeps_variant(r, input.args.var_filter))]
         ELSE contigs
    /\ pc' = main_next(pc)
    /\ UNCHANGED <<input, de_results, gene_filter, bam, scan, stdout, exit>>

\* contigs.variant_type on a table without that column: AttributeError
VarFilterFails ==
    /\ pc = "var_filter"
    /\ var_filter_given(input.args.var_filter)
    /\ "variant_type" \notin contigs.cols
    /\ Uncaught("AttributeError", pc)
    /\ UNCHANGED <<input, contigs, de_results, gene_filter, bam, scan, stdout>>

\* contigs['sample'] = args.sample
SetSample ==
    /\ pc = "sample"
    /\ contigs' = [cols |-> contigs.cols \cup {"sample"},
                   rows |-> [i \in DOMAIN contigs.rows |->
                               [contigs.rows[i] EXCEPT !.sample = input.args.sample]]]
    /\ pc' = main_next(pc)
    /\ UNCHANGED <<input, de_results, gene_filter, bam, scan, stdout, exit>>

gene_filter_always(genelist) == TRUE

\* if len(gene_filter) > 0:
gene_filter_given(genelist) == Len(genelist) > 0

\* contigs = filter_by_gene(contigs, gene_filter)
GeneFilter ==
    /\ pc = "gene_filter"
    /\ gene_filter_given(gene_filter) => ~filter_by_gene_raises(contigs)
    /\ contigs' = IF gene_filter_given(gene_filter)
                  THEN filter_by_gene(contigs, gene_filter) ELSE contigs
    /\ pc' = main_next(pc)
    /\ UNCHANGED <<input, de_results, gene_filter, bam, scan, stdout, exit>>

GeneFilterFails ==
    /\ pc = "gene_filter"
    /\ gene_filter_given(gene_filter)
    /\ filter_by_gene_raises(contigs)
    /\ Uncaught("AttributeError", pc)
    /\ UNCHANGED <<input, contigs, de_results, gene_filter, bam, scan, stdout>>

----------------------------------------------------------------------------
(* main(): join *)

\* contigs = add_de_info(contigs, de_results)
AddDEInfo ==
    /\ pc = "add_de_info"
    /\ ~add_de_info_raises(contigs, de_results)
    /\ \E rows \in merge_orders(contigs.rows, de_results.rows) :
          contigs' = [cols |-> add_de_info_cols(contigs, de_results), rows |-> rows]
    /\ pc' = main_next(pc)
    /\ UNCHANGED <<input, de_results, gene_filter, bam, scan, stdout, exit>>

AddDEInfoFails ==
    /\ pc = "add_de_info"
    /\ add_de_info_raises(contigs, de_results)
    /\ Uncaught("KeyError", pc)
    /\ UNCHANGED <<input, contigs, de_results, gene_filter, bam, scan, stdout>>

----------------------------------------------------------------------------
(* get_st_alignments *)

\* the records bam.fetch() yields, in the order it yields them
records == input.st_bam

\* bam = pysam.AlignmentFile(st_bam, 'rc'); st_alignment = []
OpenBam ==
    /\ pc = "get_st_alignments"
    /\ \E indexed \in BOOLEAN :
          bam' = [opens |-> bam.opens + 1, fetches |-> 0, has_index |-> indexed, pos |-> 0]
    /\ scan' = [i |-> 1, aligned_conts |-> <<>>, st_alignment |-> <<>>]
    /\ pc' = "for_contig"
    /\ UNCHANGED <<input, contigs, de_results, gene_filter, stdout, exit>>

\* the file is missing or is no alignment file; the call is outside the try block
OpenBamFails ==
    /\ pc = "get_st_alignments"
    /\ \E error \in {"IOError", "ValueError"} : Raise(error, pc)
    /\ UNCHANGED <<input, contigs, de_results, gene_filter, bam, scan, stdout>>

fetch_from_current(handle) == handle.pos

\* where the iterator of a new bam.fetch() starts: at the first record, whatever
\* earlier iterators on the handle have read
fetch_start(handle) == 0

\* for contig in contigs.contig_id.values: ... bam.fetch() ...
Fetch ==
    /\ pc = "for_contig"
    /\ scan.i <= Len(contigs.rows)
    /\ bam.has_index
    /\ bam' = [bam EXCEPT !.fetches = @ + 1, !.pos = fetch_start(bam)]
    /\ scan' = [scan EXCEPT !.aligned_conts = <<>>]
    /\ pc' = "for_read"
    /\ UNCHANGED <<input, contigs, de_results, gene_filter, stdout, exit>>

\* fetch() on a file without an index: ValueError
FetchFails ==
    /\ pc = "for_contig"
    /\ scan.i <= Len(contigs.rows)
    /\ ~bam.has_index
    /\ Uncaught("ValueError", "get_st_alignments")
    /\ UNCHANGED <<input, contigs, de_results, gene_filter, bam, scan, stdout>>

selects_any(read, contig) == TRUE

\* if read.query_name == contig
selects(read, contig) == read.query_name = contig

\* [read.reference_name for read in bam.fetch() if read.query_name == contig]:
\* one step of the iteration
NextRead ==
    /\ pc = "for_read"
    /\ bam.pos < Len(records)
    /\ LET read == records[bam.pos + 1]
       IN scan' = [scan EXCEPT !.aligned_conts =
                      IF selects(read, contigs.rows[scan.i].contig_id)
                      THEN Append(@, read.reference_name) ELSE @]
    /\ bam' = [bam EXCEPT !.pos = @ + 1]
    /\ UNCHANGED <<input, pc, contigs, de_results, gene_filter, stdout, exit>>

\* aligned_conts = ','.join(aligned_conts); st_alignment.append(aligned_conts)
JoinAligned ==
    /\ pc = "for_read"
    /\ bam.pos >= Len(records)
    /\ scan' = [i |-> scan.i + 1, aligned_conts |-> <<>>,
                st_alignment |-> Append(scan.st_alignment, join(",", scan.aligned_conts))]
    /\ pc' = "for_contig"
    /\ UNCHANGED <<input, contigs, de_results, gene_filter, bam, stdout, exit>>

\* contigs['ST_alignment'] = st_alignment; return contigs
SetSTAlignment ==
    /\ pc = "for_contig"
    /\ scan.i > Len(contigs.rows)
    /\ contigs' = [cols |-> contigs.cols \cup {"ST_alignment"},
                   rows |-> [k \in DOMAIN contigs.rows |->
                               [contigs.rows[k] EXCEPT !.ST_alignment = scan.st_alignment[k]]]]
    /\ pc' = main_next("get_st_alignments")
    /\ UNCHANGED <<input, de_results, gene_filter, bam, scan, stdout, exit>>

----------------------------------------------------------------------------
(* main(): output *)

\* contigs.to_csv(sys.stdout, index=False, sep='\t'): the header line, then the rows
ToCsv ==
    /\ pc = "to_csv"
    /\ stdout' = <<contigs.cols>> \o contigs.rows
    /\ pc' = main_next(pc)
    /\ UNCHANGED <<input, contigs, de_results, gene_filter, bam, scan, exit>>

\* main() returns: the interpreter exits with status 0
Return ==
    /\ pc = "return"
    /\ pc' = "exited"
    /\ exit' = [via |-> "return", status |-> EXIT_SUCCESS, error |-> "", at |-> ""]
    /\ UNCHANGED <<input, contigs, de_results, gene_filter, bam, scan, stdout>>

Next ==
    \/ ReadContigInfo \/ ReadContigInfoFails
    \/ ReadDEResults \/ ReadDEResultsFails
    \/ ReadGeneFilter \/ ReadGeneFilterFails
    \/ VarFilter \/ VarFilterFails
    \/ SetSample
    \/ GeneFilter \/ GeneFilterFails
    \/ AddDEInfo \/ AddDEInfoFails
    \/ OpenBam \/ OpenBamFails
    \/ Fetch \/ FetchFails
    \/ NextRead \/ JoinAligned \/ SetSTAlignment
    \/ ToCsv \/ Return

Spec == Init /\ [][Next]_vars

----------------------------------------------------------------------------
(* Properties *)

Finished == exit.via = "return"

\* the rows of the written table (stdout without its header line)
Written == IF stdout = <<>> THEN <<>> ELSE Tail(stdout)

\* the gene symbols of an overlapping_genes text: its maximal runs of
\* characters other than ':' and '|' (an empty run between two separators too)
Symbols(og) ==
    LET n == Len(og)
        sep(k) == og[k] \in {":", "|"}
    IN { SubSeq(og, p[1], p[2]) :
           p \in { q \in (1..(n + 1)) \X (0..n) :
                     /\ q[1] <= q[2] + 1
                     /\ \A k \in q[1]..q[2] : ~sep(k)
                     /\ q[1] = 1 \/ sep(q[1] - 1)
                     /\ q[2] = n \/ sep(q[2] + 1) } }

\* C1: when a non-empty gene list is supplied, the gene filter keeps exactly
\* the rows of which at least one symbol (the field split on ':' and then on
\* '|') is, character for character, a member of the list; 'g1|g2:g3' is kept
\* for the list {g3} and dropped for the list {g9}.
C1_GeneFilterKeepsExactlyListed ==
    [][(pc = "gene_filter" /\ pc' = "add_de_info" /\ Len(gene_filter) > 0) =>
         /\ contigs'.rows =
              SelectSeq(contigs.rows,
                        LAMBDA r : Symbols(r.overlapping_genes) \cap Range(gene_filter) # {})
         /\ \A k \in DOMAIN contigs.rows :
              contigs.rows[k].overlapping_genes = G1G2G3 =>
                /\ gene_filter = <<G3>> => contigs.rows[k] \in Range(contigs'.rows)
                /\ gene_filter = <<G9>> => contigs.rows[k] \notin Range(contigs'.rows)]_vars

\* a gene filter has kept a row whose symbols are separated by '|' and by ':',
\* and has dropped another row
C1_Witness ==
    /\ pc = "add_de_info"
    /\ gene_filter = <<G3>>
    /\ input.args.var_filter = {}
    /\ \E k \in DOMAIN contigs.rows : contigs.rows[k].overlapping_genes = G1G2G3
    /\ Len(contigs.rows) < Len(input.contig_info.lines)

\* the variant-filter statement of main() has been executed
PastVarFilter ==
    LET before == {"read_contig_info", "read_de_results", "read_gene_filter", "var_filter"}
    IN IF pc = "exited" THEN exit.at \notin before ELSE pc \notin before

\* C2: when a variant filter is given, every row of the table from the
\* variant filter on, through the gene filter, the join and the annotation,
\* and every row written, has a variant_type that is a member of the filter.
C2_OutputWithinVarFilter ==
    input.args.var_filter # {} =>
        /\ PastVarFilter
             => \A k \in DOMAIN contigs.rows :
                   contigs.rows[k].variant_type \in input.args.var_filter
        /\ \A k \in DOMAIN Written : Written[k].variant_type \in input.args.var_filter

\* a run with filter {DEL} has written a table with a row, and its contig
\* table held an INS row whose contig has DE rows
C2_Witness ==
    /\ Finished
    /\ input.args.var_filter = {"DEL"}
    /\ Written # <<>>
    /\ \E i \in DOMAIN input.contig_info.lines :
          /\ input.contig_info.lines[i].variant_type = "INS"
          /\ input.contig_info.lines[i].contig_id \in Range(input.de_results.lines)

\* C3: the result of add_de_info(C, D) holds only contig ids that occur both
\* in C.contig_id and in D.contig, and has no column named genes.
C3_InnerJoinWithoutGenes ==
    [][(pc = "add_de_info" /\ pc' = main_next("add_de_info")) =>
         /\ \A k \in DOMAIN contigs'.rows :
              /\ \E l \in DOMAIN contigs.rows :
                    contigs.rows[l].contig_id = contigs'.rows[k].contig_id
              /\ \E j \in DOMAIN de_results.rows :
                    de_results.rows[j].contig = contigs'.rows[k].contig_id
         /\ "genes" \notin contigs'.cols]_vars

\* a join of a table that has a genes column has kept a row and has dropped
\* a contig that has no DE row
C3_Witness ==
    /\ pc = main_next("add_de_info")
    /\ "genes" \in input.contig_info.cols
    /\ contigs.rows # <<>>
    /\ \E i \in DOMAIN input.contig_info.lines :
          input.contig_info.lines[i].contig_id \notin Range(input.de_results.lines)

\* the number of elements of s that satisfy P
Count(s, P(_)) == Cardinality({k \in DOMAIN s : P(s[k])})

\* C4 as stated: every contig id appears at most once in the written table.
C4_AtMostOncePerContig ==
    Finished =>
        \A k1, k2 \in DOMAIN Written :
            Written[k1].contig_id = Written[k2].contig_id => k1 = k2

\* C4 amended: the join pairs every contig row with every DE row of the same
\* contig id, once each, and with no other: a contig row is in the result as
\* many times as the DE table lists its contig (not at all when the DE table
\* does not list it, which is no error).
C4_OneRowPerMatchingPair ==
    [][(pc = "add_de_info" /\ ~add_de_info_raises(contigs, de_results)) =>
         /\ pc' = main_next("add_de_info")
         /\ \A l \in DOMAIN contigs.rows : \A j \in DOMAIN de_results.rows :
              Count(contigs'.rows,
                    LAMBDA r : r.info = contigs.rows[l].info /\ r.stats = j)
                = IF de_results.rows[j].contig = contigs.rows[l].contig_id THEN 1 ELSE 0
         /\ \A k \in DOMAIN contigs'.rows :
              \E l \in DOMAIN contigs.rows : \E j \in DOMAIN de_results.rows :
                 contigs'.rows[k] = [contigs.rows[l] EXCEPT !.stats = j]]_vars

\* a finished run whose DE table lists one contig twice and another not at
\* all, with contig rows of both
C4_Witness ==
    /\ Finished
    /\ \E k1, k2 \in DOMAIN Written :
          /\ k1 # k2
          /\ Written[k1].info = Written[k2].info
          /\ Written[k1].stats # Written[k2].stats
    /\ \E i \in DOMAIN input.contig_info.lines :
          /\ input.contig_info.lines[i].contig_id \notin Range(input.de_results.lines)
          /\ \A k \in DOMAIN Written : Written[k].info # i


\* the reference names of the records of rs whose query name is id, in order
RefsOf(rs, id) ==
    LET sel == SelectSeq(rs, LAMBDA r : r.query_name = id)
    IN [k \in DOMAIN sel |-> sel[k].reference_name]

\* C5: once the column is set, ST_alignment of every row is the reference
\* names of exactly the records whose query name is the row's contig_id, in
\* the order of the file and with repetitions, separated by commas; it is the
\* empty text, never a missing value, when no record matches; records chrX and
\* chrY for query A give 'chrX,chrY'.
C5_STAlignmentIsCommaJoin ==
    "ST_alignment" \in contigs.cols =>
        \A k \in DOMAIN contigs.rows :
            LET st == contigs.rows[k].ST_alignment
                refs == RefsOf(records, contigs.rows[k].contig_id)
            IN /\ st # NaN
               /\ refs = <<>> => st = <<>>
               /\ refs # <<>> => split(st, ",") = refs
               /\ refs = <<ChrX, ChrY>> => st = ChrX \o <<",">> \o ChrY

\* a finished run wrote a row without alignments and a row whose contig has
\* two records on the same reference
C5_Witness ==
    /\ Finished
    /\ \E k \in DOMAIN Written : Written[k].ST_alignment = <<>>
    /\ \E k \in DOMAIN Written : Written[k].ST_alignment = ChrX \o <<",">> \o ChrX

\* C6 as stated: an I/O failure on a required input ends the process through
\* exit_with_error with EXIT_FILE_IO_ERROR, and no run that ends another way
\* (normally, or by an uncaught exception) has that exit status.
C6_DedicatedIOExitStatus ==
    /\ (exit.error = "IOError" /\ exit.at \in {"read_contig_info", "read_de_results"})
          => (exit.via = "exit_with_error" /\ exit.status = EXIT_FILE_IO_ERROR)
    /\ exit.via \in {"return", "uncaught"} => exit.status # EXIT_FILE_IO_ERROR

Stage(stmt) ==
    CASE stmt \in {"read_contig_info", "read_de_results", "read_gene_filter"} -> 1
      [] stmt \in {"var_filter", "sample", "gene_filter"} -> 2
      [] stmt = "add_de_info" -> 3
      [] stmt \in {"get_st_alignments", "for_contig", "for_read"} -> 4
      [] stmt = "to_csv" -> 5
      [] OTHER -> 6

\* C8: the table is written in one step, after the loading, the filters, the
\* join and the annotation have all been done; a run that fails has written
\* nothing; and the run never goes back to an earlier stage.
C8_AllOrNothing ==
    [][/\ exit'.via \in {"exit_with_error", "uncaught"} => stdout' = <<>>
       /\ stdout' # stdout =>
            /\ stdout = <<>>
            /\ {"sample", "stats", "ST_alignment"} \subseteq contigs.cols
            /\ stdout' = <<contigs.cols>> \o contigs.rows
       /\ Stage(pc') >= Stage(pc)
       /\ bam'.opens <= 1]_vars

\* a run failed in the last stage before the output, with rows in the table,
\* and has written nothing
C8_Witness ==
    /\ exit.via = "uncaught"
    /\ exit.at = "get_st_alignments"
    /\ bam.opens = 1
    /\ contigs.rows # <<>>
    /\ stdout = <<>>

\* C9: a filter that is not given removes no row: without --var_filter the
\* variant-filter statement leaves the table as it is, without a gene-filter
\* file the gene-filter statement leaves it as it is, and with neither every
\* line of the contig table whose contig_id has a DE row is in the output.
C9_AbsentFilterDropsNothing ==
    [][/\ (pc = "var_filter" /\ input.args.var_filter = {}) => contigs' = contigs
       /\ (pc = "gene_filter" /\ input.args.gene_filter = "") => contigs' = contigs
       /\ (pc = "to_csv" /\ input.args.var_filter = {} /\ input.args.gene_filter = "") =>
            \A i \in DOMAIN input.contig_info.lines :
               input.contig_info.lines[i].contig_id \in Range(input.de_results.lines)
                 => \E k \in 2..Len(stdout') : stdout'[k].info = i]_vars

\* a run without filters has written rows of both variant types, one of them
\* with a gene that a gene list of the model would not keep
C9_Witness ==
    /\ Finished
    /\ input.args.var_filter = {}
    /\ input.args.gene_filter = ""
    /\ \E k1, k2 \in DOMAIN Written :
          /\ Written[k1].variant_type = "INS"
          /\ Written[k2].variant_type = "DEL"
          /\ Written[k2].overlapping_genes = G9

\* C10: the alignment file is opened once; every contig's scan starts at the
\* first record and reads every record, whatever was scanned before it, so
\* rows with the same contig_id get the same ST_alignment wherever they are
\* in the table; and there is one scan per row of the joined table.
C10_EveryScanIsFull ==
    /\ bam.opens <= 1
    /\ pc = "for_read" =>
          /\ bam.fetches = scan.i
          /\ scan.aligned_conts =
                RefsOf(SubSeq(records, 1, bam.pos), contigs.rows[scan.i].contig_id)
    /\ pc = "for_contig" =>
          /\ bam.fetches = scan.i - 1
          /\ scan.i > 1 => bam.pos = Len(records)
    /\ "ST_alignment" \in contigs.cols =>
          /\ bam.opens = 1
          /\ bam.fetches = Len(contigs.rows)
          /\ \A k1, k2 \in DOMAIN contigs.rows :
                contigs.rows[k1].contig_id = contigs.rows[k2].contig_id
                  => contigs.rows[k1].ST_alignment = contigs.rows[k2].ST_alignment

\* two rows of one contig, with a row of another contig scanned between them,
\* have both got the contig's two alignments
C10_Witness ==
    /\ "ST_alignment" \in contigs.cols
    /\ \E k1, k2, k3 \in DOMAIN contigs.rows :
          /\ k1 < k2 /\ k2 < k3
          /\ contigs.rows[k1].contig_id = contigs.rows[k3].contig_id
          /\ contigs.rows[k2].contig_id # contigs.rows[k1].contig_id
          /\ Len(split(contigs.rows[k3].ST_alignment, ",")) = 2

====
